---- MODULE Spec2Model ----
(***************************************************************************)
(* Model of lib/src/controls.rs: SafeExtControl<T>, a repr(transparent)    *)
(* wrapper around the raw v4l2_ext_control descriptor, its constructors,   *)
(* typed accessors, Drop and the AsV4l2ControlSlice views.                 *)
(*                                                                         *)
(* The raw descriptor is {id, size, union}.  The union is kept as its 8    *)
(* bytes (little endian, 64-bit target): `value` is bytes 1..4, `value64`  *)
(* and every pointer member `p_<ctrl>` are bytes 1..8.  The heap is a map  *)
(* from addresses to cells; Box::new picks any free address.               *)
(***************************************************************************)
EXTENDS Integers, Sequences, FiniteSets, TLC

\* Number of wrapper places (fields of the caller's repr(C) aggregate).
MaxWrappers == 2
\* Number of heap addresses Box::new can hand out.
NumAddrs == 2

Slots == 1..MaxWrappers
Addrs == 1..NumAddrs

-----------------------------------------------------------------------------
(* Control identities *)

\* The payload structs handed to wrap_both!.
Ctrls ==
  {"fwht_params", "h264_decode_params", "h264_pred_weights", "h264_pps",
   "h264_scaling_matrix", "h264_slice_params", "h264_sps", "vp8_frame"}

\* bindings::[<V4L2_CID_STATELESS_ $ctrl:upper>], the id of a Drop arm.
StatelessCid(c) ==
  CASE c = "fwht_params"         -> "V4L2_CID_STATELESS_FWHT_PARAMS"
    [] c = "h264_decode_params"  -> "V4L2_CID_STATELESS_H264_DECODE_PARAMS"
    [] c = "h264_pred_weights"   -> "V4L2_CID_STATELESS_H264_PRED_WEIGHTS"
    [] c = "h264_pps"            -> "V4L2_CID_STATELESS_H264_PPS"
    [] c = "h264_scaling_matrix" -> "V4L2_CID_STATELESS_H264_SCALING_MATRIX"
    [] c = "h264_slice_params"   -> "V4L2_CID_STATELESS_H264_SLICE_PARAMS"
    [] c = "h264_sps"            -> "V4L2_CID_STATELESS_H264_SPS"
    [] c = "vp8_frame"           -> "V4L2_CID_STATELESS_VP8_FRAME"

\* std::mem::size_of::<T::PAYLOAD>() as u32 for a payload struct.  The code
\* only relies on it being the struct's size and positive.
SizeOf(c) ==
  CASE c = "fwht_params"         -> 40
    [] c = "h264_decode_params"  -> 560
    [] c = "h264_pred_weights"   -> 772
    [] c = "h264_pps"            -> 12
    [] c = "h264_scaling_matrix" -> 480
    [] c = "h264_slice_params"   -> 412
    [] c = "h264_sps"            -> 1048
    [] c = "vp8_frame"           -> 1232

\* Whether marker T pairs its payload with that payload's own control id.
WellBound(T) ==
  IF T.PAYLOAD \in Ctrls THEN T.ID = StatelessCid(T.PAYLOAD)
  ELSE \A c \in Ctrls : T.ID # StatelessCid(c)

\* Markers as the control modules declare them: user::Brightness (i32), a
\* 64-bit control, and the FWHT parameters.
Brightness == [ID |-> "V4L2_CID_BRIGHTNESS", PAYLOAD |-> "i32"]
PixelRate == [ID |-> "V4L2_CID_PIXEL_RATE", PAYLOAD |-> "i64"]
FwhtParams == [ID |-> StatelessCid("fwht_params"), PAYLOAD |-> "fwht_params"]
Registered == {Brightness, PixelRate, FwhtParams}

\* trait ExtControlTrait { const ID: u32; type PAYLOAD; }: the trait relates
\* ID and PAYLOAD in no way, so it also admits a struct payload under an id
\* Drop does not dispatch, or under another struct's id.
ExtControlTrait ==
  Registered \cup
    {[ID |-> "V4L2_CID_BRIGHTNESS", PAYLOAD |-> "fwht_params"],
     [ID |-> StatelessCid("h264_sps"), PAYLOAD |-> "fwht_params"]}

-----------------------------------------------------------------------------
(* Values and their encodings *)

I32Vals == {-1, 128}
I64Vals == {-1, 128}
\* A payload struct: its `flags` field and the rest of its fields.
Fields == {"flags", "rest"}
FieldVals == {2, 5}
StructVals == [flags : FieldVals, rest : FieldVals]
ZeroStruct == [flags |-> 0, rest |-> 0]

Zero4 == <<0, 0, 0, 0>>
Zero8 == Zero4 \o Zero4
\* A non-null address outside the heap.
WildPtr == -1
\* Bytes 5..8 of a union built by the literal `{ value }`: not written by it.
Pads == {Zero4, <<255, 255, 255, 255>>}

Enc32(v) ==
  <<v % 256, (v \div 256) % 256, (v \div 65536) % 256, (v \div 16777216) % 256>>
Dec32(b) ==
  b[1] + 256 * b[2] + 65536 * b[3]
    + 16777216 * (IF b[4] >= 128 THEN b[4] - 256 ELSE b[4])
Enc64(v) == Enc32(v) \o Enc32((v \div 65536) \div 65536)
Dec64(b) ==
  LET lo == Dec32(SubSeq(b, 1, 4))
      hi == Dec32(SubSeq(b, 5, 8)) + (IF lo < 0 THEN 1 ELSE 0)
  IN  IF hi = 0 THEN lo ELSE lo + hi * 65536 * 65536

-----------------------------------------------------------------------------
(* State *)

VARIABLES
  ctrls,   \* the wrappers, by place
  heap,    \* the allocator's cells, by address
  view,    \* the live &mut [v4l2_ext_control], if any
  last,    \* the operation that produced this state and its arguments
  fault    \* how the execution left defined behaviour, if it did

vars == <<ctrls, heap, view, last, fault>>

NoMarker == [ID |-> "0", PAYLOAD |-> "none"]
\* v4l2_ext_control::default(): all zero.
DefaultExtControl == [id |-> "0", size |-> 0, u |-> Zero8]
NoCtrl ==
  [live |-> FALSE, T |-> NoMarker, id |-> "0", size |-> 0, u |-> Zero8, own |-> 0]
FreeCell == [live |-> FALSE, ty |-> "none", val |-> ZeroStruct]
NoView == [base |-> 0, len |-> 0]
Op(name, s, n, arg) == [op |-> name, slot |-> s, n |-> n, arg |-> arg]

Init ==
  /\ ctrls = [s \in Slots |-> NoCtrl]
  /\ heap = [a \in Addrs |-> FreeCell]
  /\ view = NoView
  /\ last = Op("init", 0, 0, 0)
  /\ fault = "none"

\* SafeExtControl<T>(v4l2_ext_control, PhantomData<T>): the descriptor d held
\* for marker T; `own` remembers the address From allocated (0: none).
SafeExtControl(T, d, own) ==
  [live |-> TRUE, T |-> T, id |-> d.id, size |-> d.size, u |-> d.u, own |-> own]

\* The places a live view borrows mutably: the borrow checker lets nothing
\* else touch them until the view ends.
Borrowed == {s \in Slots : view.base <= s /\ s < view.base + view.len}
Usable(s) == fault = "none" /\ ctrls[s].live /\ s \notin Borrowed
Vacant(s) == fault = "none" /\ ~ctrls[s].live

-----------------------------------------------------------------------------
(* Accessors *)

id(w) == w.id

\* unsafe { self.0.__bindgen_anon_1.value }
value(w) == Dec32(SubSeq(w.u, 1, 4))

\* unsafe { self.0.__bindgen_anon_1.value64 }
value64(w) == Dec64(w.u)

\* self.0.__bindgen_anon_1.p_<ctrl>: the pointer member, as an address.
\* Bytes that spell no address of the modelled heap read as WildPtr.
p_ctrl(w) ==
  IF SubSeq(w.u, 5, 8) = Zero4 /\ w.u[4] < 128 THEN Dec32(SubSeq(w.u, 1, 4))
  ELSE WildPtr

Allocated(a) == a \in Addrs /\ heap[a].live

\* <ctrl>(): the struct behind the pointer member.
ctrl(w) == heap[p_ctrl(w)].val

-----------------------------------------------------------------------------
(* Construction *)

\* from_value with the union initialiser left out: the struct update syntax
\* fills it from Default.
from_value_default_union(s, T, v, pad) ==
  /\ Vacant(s)
  /\ T.PAYLOAD = "i32"
  /\ ctrls' = [ctrls EXCEPT ![s] =
       SafeExtControl(T, [DefaultExtControl EXCEPT !.id = T.ID], 0)]
  /\ last' = Op("from_value", s, 0, v)
  /\ UNCHANGED <<heap, view, fault>>

from_value(s, T, v, pad) ==
  /\ Vacant(s)
  /\ T.PAYLOAD = "i32"
  /\ ctrls' = [ctrls EXCEPT ![s] =
       SafeExtControl(T, [DefaultExtControl EXCEPT !.id = T.ID,
                                                   !.u = Enc32(v) \o pad], 0)]
  /\ last' = Op("from_value", s, 0, v)
  /\ UNCHANGED <<heap, view, fault>>

\* from_value64 with `id: T::ID` left out.
from_value64_default_id(s, T, v) ==
  /\ Vacant(s)
  /\ T.PAYLOAD = "i64"
  /\ ctrls' = [ctrls EXCEPT ![s] =
       SafeExtControl(T, [DefaultExtControl EXCEPT !.u = Enc64(v)], 0)]
  /\ last' = Op("from_value64", s, 0, v)
  /\ UNCHANGED <<heap, view, fault>>

from_value64(s, T, v) ==
  /\ Vacant(s)
  /\ T.PAYLOAD = "i64"
  /\ ctrls' = [ctrls EXCEPT ![s] =
       SafeExtControl(T, [DefaultExtControl EXCEPT !.id = T.ID,
                                                   !.u = Enc64(v)], 0)]
  /\ last' = Op("from_value64", s, 0, v)
  /\ UNCHANGED <<heap, view, fault>>

\* Box::new(params) followed by Box::into_raw: a fresh cell at address a.
BoxNew(a, ty, params) ==
  [heap EXCEPT ![a] = [live |-> TRUE, ty |-> ty, val |-> params]]

from(s, T, params, a) ==
  /\ Vacant(s)
  /\ T.PAYLOAD \in Ctrls
  /\ a \in Addrs /\ ~heap[a].live
  /\ heap' = BoxNew(a, T.PAYLOAD, params)
  /\ ctrls' = [ctrls EXCEPT ![s] =
       SafeExtControl(T, [DefaultExtControl EXCEPT !.id = T.ID,
                                                   !.size = SizeOf(T.PAYLOAD),
                                                   !.u = Enc64(a)], a)]
  /\ last' = Op("from", s, 0, params)
  /\ UNCHANGED <<view, fault>>

-----------------------------------------------------------------------------
(* Mutation *)

set_value(s, v) ==
  /\ Usable(s)
  /\ ctrls[s].T.PAYLOAD = "i32"
  /\ ctrls' = [ctrls EXCEPT ![s].u = Enc32(v) \o SubSeq(@, 5, 8)]
  /\ last' = Op("set_value", s, 0, v)
  /\ UNCHANGED <<heap, view, fault>>

set_value64(s, v) ==
  /\ Usable(s)
  /\ ctrls[s].T.PAYLOAD = "i64"
  /\ ctrls' = [ctrls EXCEPT ![s].u = Enc64(v)]
  /\ last' = Op("set_value64", s, 0, v)
  /\ UNCHANGED <<heap, view, fault>>

\* What comes of .as_mut().unwrap() on the pointer member and a write through
\* the reference: a panic on null; outside defined behaviour when the pointer
\* is not a live allocation of the payload type.
DerefFault(w) ==
  LET p == p_ctrl(w)
  IN  IF p = 0 THEN "panic"
      ELSE IF ~Allocated(p) THEN "dangling"
      ELSE IF heap[p].ty # w.T.PAYLOAD THEN "type_confusion"
      ELSE "none"

\* <ctrl>_mut() handing out a fresh default struct in place of the stored one.
ctrl_mut_fresh_struct(s, f, x) ==
  /\ Usable(s)
  /\ ctrls[s].T.PAYLOAD \in Ctrls
  /\ fault' = DerefFault(ctrls[s])
  /\ heap' = IF fault' = "none"
             THEN [heap EXCEPT ![p_ctrl(ctrls[s])].val =
                     [ZeroStruct EXCEPT ![f] = x]]
             ELSE heap
  /\ last' = Op("ctrl_mut", s, f, x)
  /\ UNCHANGED <<ctrls, view>>

\* <ctrl>_mut() moving the struct into a new Box and freeing the old one.
ctrl_mut_reboxes(s, f, x) ==
  /\ Usable(s)
  /\ ctrls[s].T.PAYLOAD \in Ctrls
  /\ fault' = DerefFault(ctrls[s])
  /\ \E a \in Addrs :
       /\ ~heap[a].live
       /\ heap' = [heap EXCEPT
                     ![a] = [heap[p_ctrl(ctrls[s])] EXCEPT !.val[f] = x],
                     ![p_ctrl(ctrls[s])] = FreeCell]
       /\ ctrls' = [ctrls EXCEPT ![s].u = Enc64(a), ![s].own = a]
  /\ last' = Op("ctrl_mut", s, f, x)
  /\ UNCHANGED view

\* <ctrl>_mut() and the assignment of x to field f of the struct it returns.
ctrl_mut(s, f, x) ==
  /\ Usable(s)
  /\ ctrls[s].T.PAYLOAD \in Ctrls
  /\ fault' = DerefFault(ctrls[s])
  /\ heap' = IF fault' = "none"
             THEN [heap EXCEPT ![p_ctrl(ctrls[s])].val[f] = x]
             ELSE heap
  /\ last' = Op("ctrl_mut", s, f, x)
  /\ UNCHANGED <<ctrls, view>>

-----------------------------------------------------------------------------
(* Destruction *)

\* The arm of `match self.0.id` that Drop runs: "none" when size is 0 and the
\* match is skipped, "_" for the default arm.
DropArm(w) ==
  IF w.size > 0
  THEN IF \E c \in Ctrls : w.id = StatelessCid(c)
       THEN CHOOSE c \in Ctrls : w.id = StatelessCid(c)
       ELSE "_"
  ELSE "none"

\* let _ = Box::from_raw(p) with the arm's struct type: the ways it can end.
\* A null or no longer allocated p, and a cell of another struct type (freed
\* with the wrong layout), are outside defined behaviour; the last may still
\* release the cell.
BoxFromRawDrop(p, arm) ==
  IF p = 0 THEN {"null_free"}
  ELSE IF ~Allocated(p) THEN {"double_free"}
  ELSE IF heap[p].ty # arm THEN {"none", "bad_layout"}
  ELSE {"none"}

drop(s) ==
  LET w == ctrls[s]
      arm == DropArm(w)
      p == p_ctrl(w)
  IN  /\ Usable(s)
      /\ IF arm \in Ctrls
         THEN /\ fault' \in BoxFromRawDrop(p, arm)
              /\ heap' = IF Allocated(p) THEN [heap EXCEPT ![p] = FreeCell]
                         ELSE heap
         ELSE UNCHANGED <<heap, fault>>
      /\ ctrls' = [ctrls EXCEPT ![s] = NoCtrl]
      /\ last' = Op("drop", s, IF arm \in Ctrls THEN p ELSE 0,
                    [T |-> w.T, arm |-> arm, own |-> w.own])
      /\ UNCHANGED view

-----------------------------------------------------------------------------
(* Views: AsV4l2ControlSlice *)

\* std::slice::from_raw_parts_mut(ptr, len): len descriptors starting at the
\* place ptr points to.
from_raw_parts_mut(ptr, len) == [base |-> ptr, len |-> len]

\* The place of element i of the view.
ElemSlot(i) == view.base + i - 1
Slice == [i \in 1..view.len |-> ctrls[ElemSlot(i)]]

\* impl AsV4l2ControlSlice for &mut SafeExtControl<T>
as_v4l2_control_slice(s) ==
  /\ Usable(s)
  /\ view = NoView
  /\ view' = from_raw_parts_mut(s, 1)
  /\ last' = Op("as_v4l2_control_slice", s, 1, 0)
  /\ UNCHANGED <<ctrls, heap, fault>>

\* The aggregate's view built with a field count one too small.
Controls_short_slice(lo, n) ==
  /\ fault = "none"
  /\ view = NoView
  /\ n >= 2 /\ lo + n - 1 <= MaxWrappers
  /\ \A s \in lo..(lo + n - 1) : ctrls[s].live
  /\ view' = from_raw_parts_mut(lo, n - 1)
  /\ last' = Op("Controls_as_v4l2_control_slice", lo, n, 0)
  /\ UNCHANGED <<ctrls, heap, fault>>

\* impl AsV4l2ControlSlice for &mut Controls, a repr(C) struct of n wrappers
\* laid out from place lo on.
Controls_as_v4l2_control_slice(lo, n) ==
  /\ fault = "none"
  /\ view = NoView
  /\ n >= 2 /\ lo + n - 1 <= MaxWrappers
  /\ \A s \in lo..(lo + n - 1) : ctrls[s].live
  /\ view' = from_raw_parts_mut(lo, n)
  /\ last' = Op("Controls_as_v4l2_control_slice", lo, n, 0)
  /\ UNCHANGED <<ctrls, heap, fault>>

\* impl AsV4l2ControlSlice for &mut [v4l2_ext_control]: returns self.
slice_as_v4l2_control_slice(self) == self

Reslice ==
  /\ fault = "none"
  /\ view # NoView
  /\ view' = slice_as_v4l2_control_slice(view)
  /\ last' = Op("slice_as_v4l2_control_slice", view.base, view.len, 0)
  /\ UNCHANGED <<ctrls, heap, fault>>

\* A view that owns: its end drops the payloads its elements point to.
EndSlice_drops_payloads ==
  /\ fault = "none"
  /\ view # NoView
  /\ view' = NoView
  /\ heap' = [a \in Addrs |->
                IF \E s \in Borrowed : ctrls[s].size > 0 /\ p_ctrl(ctrls[s]) = a
                THEN FreeCell ELSE heap[a]]
  /\ last' = Op("end_slice", view.base, view.len, 0)
  /\ UNCHANGED <<ctrls, fault>>

\* The &mut [v4l2_ext_control] goes out of scope: a reference owns nothing.
EndSlice ==
  /\ fault = "none"
  /\ view # NoView
  /\ view' = NoView
  /\ last' = Op("end_slice", view.base, view.len, 0)
  /\ UNCHANGED <<ctrls, heap, fault>>

\* g_ext_ctrls filling the value x of element i in place: the member the
\* control's kind selects, for a control whose id is that of its payload.
IoctlFill(i, P, x) ==
  LET s == ElemSlot(i)
      w == ctrls[s]
  IN  /\ fault = "none"
      /\ i \in 1..view.len
      /\ WellBound(w.T)
      /\ w.T.PAYLOAD = P
      /\ IF P \in Ctrls
         THEN /\ w.size > 0 /\ Allocated(p_ctrl(w))
              /\ heap' = [heap EXCEPT ![p_ctrl(w)].val = x]
              /\ ctrls' = ctrls
         ELSE /\ ctrls' = [ctrls EXCEPT ![s].u =
                   IF P = "i32" THEN Enc32(x) \o SubSeq(@, 5, 8) ELSE Enc64(x)]
              /\ heap' = heap
      /\ last' = Op("ioctl", s, i, x)
      /\ UNCHANGED <<view, fault>>

\* What safe code holding the &mut [v4l2_ext_control] can assign: the public
\* fields of an element, a union member, or a whole element (the type is Copy).
RawWriteId(i, cid) ==
  /\ fault = "none"
  /\ i \in 1..view.len
  /\ ctrls' = [ctrls EXCEPT ![ElemSlot(i)].id = cid]
  /\ last' = Op("raw_write", 0, 0, 0)
  /\ UNCHANGED <<heap, view, fault>>

RawWriteSize(i, n) ==
  /\ fault = "none"
  /\ i \in 1..view.len
  /\ ctrls' = [ctrls EXCEPT ![ElemSlot(i)].size = n]
  /\ last' = Op("raw_write", 0, 0, 0)
  /\ UNCHANGED <<heap, view, fault>>

RawWritePtr(i, p) ==
  /\ fault = "none"
  /\ i \in 1..view.len
  /\ ctrls' = [ctrls EXCEPT ![ElemSlot(i)].u = Enc64(p)]
  /\ last' = Op("raw_write", 0, 0, 0)
  /\ UNCHANGED <<heap, view, fault>>

RawCopy(i, j) ==
  /\ fault = "none"
  /\ i \in 1..view.len /\ j \in 1..view.len /\ i # j
  /\ ctrls' = [ctrls EXCEPT ![ElemSlot(i)].id = ctrls[ElemSlot(j)].id,
                            ![ElemSlot(i)].size = ctrls[ElemSlot(j)].size,
                            ![ElemSlot(i)].u = ctrls[ElemSlot(j)].u]
  /\ last' = Op("raw_write", 0, 0, 0)
  /\ UNCHANGED <<heap, view, fault>>

-----------------------------------------------------------------------------
(* Specifications *)

\* What a caller can do through the wrapper's own operations and an ioctl
\* call on a view, with markers and values drawn from the sets of In.
Scalar32(In) ==
  \/ \E s \in Slots, T \in In.markers, v \in In.i32, pad \in In.pads :
       from_value(s, T, v, pad)
  \/ \E s \in Slots, v \in In.i32 : set_value(s, v)

Scalar64(In) ==
  \/ \E s \in Slots, T \in In.markers, v \in In.i64 : from_value64(s, T, v)
  \/ \E s \in Slots, v \in In.i64 : set_value64(s, v)

Pointer(In) ==
  \/ \E s \in Slots, T \in In.markers, params \in In.structs, a \in Addrs :
       from(s, T, params, a)
  \/ \E s \in Slots, f \in In.fields, x \in FieldVals : ctrl_mut(s, f, x)

Views(In) ==
  \/ \E s \in Slots : as_v4l2_control_slice(s)
  \/ \E lo \in Slots, n \in Slots : Controls_as_v4l2_control_slice(lo, n)
  \/ Reslice
  \/ \E i \in Slots, P \in {T.PAYLOAD : T \in In.markers} :
       \E x \in (CASE P = "i32" -> In.i32 [] P = "i64" -> In.i64
                   [] OTHER -> In.structs) : IoctlFill(i, P, x)
  \/ EndSlice

Api(In) ==
  \/ Scalar32(In)
  \/ Scalar64(In)
  \/ Pointer(In)
  \/ \E s \in Slots : drop(s)
  \/ Views(In)

AllVals ==
  [i32 |-> I32Vals, i64 |-> I64Vals, structs |-> StructVals,
   fields |-> Fields, pads |-> Pads]
In(markers, vals) ==
  [markers |-> markers, i32 |-> vals.i32, i64 |-> vals.i64,
   structs |-> vals.structs, fields |-> vals.fields, pads |-> vals.pads]

\* Declared markers, the typed operations and ioctl calls on views.
Next == Api(In(Registered, AllVals))

Spec == Init /\ [][Next]_vars

\* The same operations for every marker the trait admits.
NextTrait == Api(In(ExtControlTrait, AllVals))

SpecTrait == Init /\ [][NextTrait]_vars

\* A 32-bit and a pointer control, one value of each kind; the holder of a
\* view also writes its elements directly.
RawIn ==
  [markers |-> {Brightness, FwhtParams}, i32 |-> {128}, i64 |-> {128},
   structs |-> {[flags |-> 5, rest |-> 2]}, fields |-> {"flags"},
   pads |-> {Zero4}]
RawIds == {StatelessCid("h264_sps")}
RawSizes == {0, SizeOf("fwht_params")}
NextRaw ==
  \/ Scalar32(RawIn)
  \/ Pointer(RawIn)
  \/ \E s \in Slots : drop(s)
  \/ Views(RawIn)
  \/ \E i \in Slots, cid \in RawIds : RawWriteId(i, cid)
  \/ \E i \in Slots, n \in RawSizes : RawWriteSize(i, n)
  \/ \E i \in Slots, p \in {0} \cup Addrs : RawWritePtr(i, p)
  \/ \E i \in Slots, j \in Slots : RawCopy(i, j)

SpecRaw == Init /\ [][NextRaw]_vars

-----------------------------------------------------------------------------
(* Properties *)

Live == {s \in Slots : ctrls[s].live}
IsPointerKind(w) == w.T.PAYLOAD \in Ctrls
LiveAddrs == {a \in Addrs : heap[a].live}
Holders(a) == {s \in Live : IsPointerKind(ctrls[s]) /\ p_ctrl(ctrls[s]) = a}
UndefinedFree == {"null_free", "double_free", "bad_layout"}

\* C1: in every reachable state, also after writes through the raw slice, a
\* live wrapper's descriptor matches its marker: size 0 for a scalar payload;
\* for a struct payload size_of the struct and a non-null pointer to the live
\* allocation the wrapper made.
C1_DescriptorMatchesMarker ==
  \A s \in Live :
    LET w == ctrls[s]
    IN  IF IsPointerKind(w)
        THEN /\ w.size = SizeOf(w.T.PAYLOAD)
             /\ p_ctrl(w) # 0
             /\ p_ctrl(w) = w.own
             /\ Allocated(w.own)
        ELSE w.size = 0

\* C2: a pointer-kind wrapper's allocation is live until the wrapper is
\* dropped, the drop releases exactly that allocation, nothing is released
\* twice, and dropping a scalar-kind wrapper releases nothing.
C2_DropFreesOwnOnce ==
  /\ \A s \in Live : IsPointerKind(ctrls[s]) => Allocated(ctrls[s].own)
  /\ fault \notin UndefinedFree
  /\ last.op = "drop" =>
       IF last.arg.T.PAYLOAD \in Ctrls
       THEN last.n = last.arg.own /\ ~Allocated(last.arg.own)
       ELSE last.n = 0

\* C3: id() of every live wrapper is its marker's ID, after construction and
\* after any value mutation.
C3_IdIsMarkerId == \A s \in Live : id(ctrls[s]) = ctrls[s].T.ID

C3_Witness ==
  /\ last.op \in {"set_value", "set_value64", "ctrl_mut"}
  /\ Live = Slots
  /\ \A s \in Slots : id(ctrls[s]) = ctrls[s].T.ID

\* C4: value() returns what from_value or the last set_value was given,
\* value64() what from_value64 or the last set_value64 was given, and the
\* size of a scalar wrapper is 0 throughout.
C4_ScalarRoundTrip ==
  /\ \A s \in Live : ~IsPointerKind(ctrls[s]) => ctrls[s].size = 0
  /\ last.op \in {"from_value", "set_value"} =>
       value(ctrls[last.slot]) = last.arg
  /\ last.op \in {"from_value64", "set_value64"} =>
       value64(ctrls[last.slot]) = last.arg

C4_Witness ==
  /\ last.op = "set_value" /\ last.arg = -1
  /\ value(ctrls[last.slot]) = -1
  /\ SubSeq(ctrls[last.slot].u, 5, 8) = Zero4
  /\ ctrls[last.slot].size = 0

\* C5: <ctrl>() right after From(params) returns params and size is size_of
\* the struct; after a field is set through <ctrl>_mut(), <ctrl>() shows that
\* field with the new value and every other field as it was.
C5_AfterOp ==
  LET w == ctrls[last.slot]
  IN  /\ last.op = "from" =>
           ctrl(w) = last.arg /\ w.size = SizeOf(w.T.PAYLOAD)
      /\ last.op = "ctrl_mut" => ctrl(w)[last.n] = last.arg
C5_OtherFieldsKept ==
  last'.op = "ctrl_mut" =>
    \A f \in Fields \ {last'.n} :
      heap'[p_ctrl(ctrls'[last'.slot])].val[f]
        = heap[p_ctrl(ctrls[last'.slot])].val[f]
\* C5 (pointer-kind round trip and read-after-write): every step ends in a
\* state where C5_AfterOp holds, and a <ctrl>_mut() step keeps the fields it
\* does not write.
C5_PointerRoundTrip == [][C5_AfterOp' /\ C5_OtherFieldsKept]_vars

C5_Witness ==
  /\ last.op = "ctrl_mut" /\ last.n = "flags" /\ last.arg = 2
  /\ ctrl(ctrls[last.slot]) = [flags |-> 2, rest |-> 5]

\* C6: a view made from one wrapper has length 1 and its element is that
\* wrapper's descriptor; a view made from an aggregate of N wrappers, or from
\* an existing slice of N descriptors, has length N, and its i-th element is
\* the i-th wrapper's descriptor, carrying that wrapper's marker ID.
C6_ViewKeepsCountAndOrder ==
  last.op \in {"as_v4l2_control_slice", "Controls_as_v4l2_control_slice",
               "slice_as_v4l2_control_slice"} =>
    /\ last.op = "as_v4l2_control_slice" => last.n = 1
    /\ DOMAIN Slice = 1..last.n
    /\ \A i \in 1..last.n :
         /\ Slice[i] = ctrls[last.slot + i - 1]
         /\ id(Slice[i]) = ctrls[last.slot + i - 1].T.ID

C6_Witness ==
  /\ last.op = "Controls_as_v4l2_control_slice"
  /\ DOMAIN Slice = 1..2
  /\ id(Slice[1]) = Brightness.ID
  /\ id(Slice[2]) = FwhtParams.ID

\* C7: making a view, an ioctl call on it and its end allocate nothing and
\* free nothing; every live allocation stays with the one wrapper that made
\* it, and only that wrapper's drop releases it.
ViewOps ==
  {"as_v4l2_control_slice", "Controls_as_v4l2_control_slice",
   "slice_as_v4l2_control_slice", "ioctl", "end_slice"}
C7_OwnedByMaker ==
  /\ \A a \in LiveAddrs : \E s \in Live : Holders(a) = {s} /\ ctrls[s].own = a
  /\ last.op = "drop" /\ last.n # 0 => last.n = last.arg.own
C7_ViewStep ==
  last'.op \in ViewOps =>
    /\ LiveAddrs' = LiveAddrs
    /\ \A a \in Addrs : heap'[a].ty = heap[a].ty
    /\ \A s \in Slots :
         /\ ctrls'[s].live = ctrls[s].live
         /\ ctrls'[s].own = ctrls[s].own
         /\ IsPointerKind(ctrls[s]) => p_ctrl(ctrls'[s]) = p_ctrl(ctrls[s])
\* C7 (a view never takes ownership): every view step satisfies C7_ViewStep
\* and every step ends with each allocation owned by its maker.
C7_ViewNeverOwns == [][C7_ViewStep /\ C7_OwnedByMaker']_vars

C7_Witness ==
  /\ last.op = "end_slice" /\ last.n = MaxWrappers
  /\ \E s \in Slots : IsPointerKind(ctrls[s]) /\ Holders(ctrls[s].own) = {s}
                       /\ Allocated(ctrls[s].own)

\* C8: no two live wrappers point to the same allocation and every live
\* allocation is pointed to by exactly one live wrapper, also after writes
\* through the raw slice.
C8_ExclusiveOwnership ==
  /\ \A a \in Addrs : Cardinality(Holders(a)) <= 1
  /\ \A a \in LiveAddrs : Cardinality(Holders(a)) = 1

\* C9: <ctrl>_mut() and a write through it leave id, size and the pointer as
\* they were and neither allocate nor free; set_value and set_value64 leave
\* id and size as they were.
C9_MutStep ==
  /\ last'.op = "ctrl_mut" =>
       /\ ctrls' = ctrls
       /\ LiveAddrs' = LiveAddrs
  /\ last'.op \in {"set_value", "set_value64"} =>
       /\ \A s \in Slots : ctrls'[s].id = ctrls[s].id
                            /\ ctrls'[s].size = ctrls[s].size
       /\ heap' = heap
\* C9 (mutating accessors change the payload value only): every step
\* satisfies C9_MutStep.
C9_MutatorsChangeValueOnly == [][C9_MutStep]_vars

C9_Witness ==
  /\ last.op = "ctrl_mut" /\ last.n = "rest"
  /\ ctrl(ctrls[last.slot]).rest = last.arg
  /\ ctrls[last.slot].size = SizeOf("fwht_params")

\* C10: when a wrapper built by From is dropped, the arm of Drop's match that
\* runs is the one of the marker's own payload struct.
C10_DropArmIsPayload ==
  last.op = "drop" /\ last.arg.T.PAYLOAD \in Ctrls =>
    last.arg.arm = last.arg.T.PAYLOAD

====
